---- MODULE Spec2Model ----
(***************************************************************************)
(* LocalDriveHub: the credential vault (lib/encryption), the local store   *)
(* and its singleton connection (lib/database), the Drive adapter          *)
(* (lib/google-drive) and the route handlers for the OAuth callback,       *)
(* upload, download, file sync and account refresh and removal.            *)
(*                                                                         *)
(* Sizes are in GB and instants in hours (3600000 ms = 1).                 *)
(***************************************************************************)
EXTENDS Integers, Sequences, FiniteSets, TLC

VARIABLES
    hasCipherGCM,    \* whether the runtime's crypto module provides createCipherGCM / createDecipherGCM
    now,             \* Date.now()
    accounts,        \* table accounts: id -> row
    files_metadata,  \* table files_metadata: id -> row
    uploads,         \* table uploads: sequence of rows, in insertion order
    drive,           \* the remote side of each Google account
    req,             \* the upload and single-download requests in flight
    zip,             \* the bulk-download request and its archive stream
    removal,         \* the DELETE /api/accounts request
    vault,           \* one encrypt/decrypt exchange with the vault
    sync,            \* the GET /api/files requests in flight
    sqlite           \* the database singleton of lib/database, its connection and the callers of getDatabase

vars == <<hasCipherGCM, now, accounts, files_metadata, uploads, drive, req, zip, removal, vault,
          sync, sqlite>>

\* ------------------------------------------------------------------ bounds

MaxTime == 2        \* the clock stops here
MaxTokens == 3      \* access tokens Google issues per account

\* ------------------------------------------------------------------ inputs

AccountIds == {"A", "B"}          \* Google user ids
Requests == {"r1", "r2"}          \* concurrent requests to the upload and download routes
DownloadRequests == {"r1"}        \* the single download that runs beside a bulk download
\* the files of one upload request, by size
Batches == {<<>>, <<2>>, <<1, 2>>, <<3, 4>>}
Emails == [A |-> "a@gmail.com", B |-> "b@gmail.com"]
\* the files Google lists for each account
DriveFiles ==
    [A |-> {[id |-> "a1", name |-> "doc", modifiedTime |-> 3],
            [id |-> "a2", name |-> "img", modifiedTime |-> 1]},
     B |-> {[id |-> "b1", name |-> "doc", modifiedTime |-> 2]}]
\* what each account's storageQuota holds before this program uploads to it
Quotas == [A |-> {[limit |-> 5, usage |-> 0], [limit |-> 5, usage |-> 4]},
           B |-> {[limit |-> 2, usage |-> 0], [limit |-> 2, usage |-> 2]}]
RandomBytes == {"x1", "x2"}       \* values crypto.randomBytes returns
Passphrases == {"p1", "p2"}
RefreshTokens == {"rtA", "rtB"}   \* the long-lived secrets Google hands out
\* the vault is also given a string of one unpaired surrogate
Secrets == RefreshTokens \cup {"\\uD800"}

\* ------------------------------------------------------------------ helpers

RECURSIVE SumSeq(_)
SumSeq(q) == IF q = <<>> THEN 0 ELSE Head(q) + SumSeq(Tail(q))

Response(status, error) == [status |-> status, error |-> error]
NoResponse == Response(0, "")

ZipIdle == [pc |-> "idle", passphrase |-> "", files |-> <<>>, groups |-> <<>>,
            account |-> <<>>, accountFiles |-> <<>>, accessToken |-> 0, entries |-> <<>>,
            response |-> NoResponse]

RemovalIdle == [pc |-> "idle", accountId |-> "", response |-> NoResponse]

SyncRequests == {"s1", "s2"}      \* concurrent requests to GET /api/files
Callers == {"c1", "c2", "c3"}     \* requests that call getDatabase

\* a GET /api/files request before it arrives; before holds the file rows an
\* account had when its sync began, synced and failed the accounts whose sync
\* has returned or thrown
SyncRequestIdle ==
    [pc |-> "idle", accountId |-> "", passphrase |-> "", queue |-> <<>>, account |-> <<>>,
     accessToken |-> 0, fileMetadata |-> <<>>, inserted |-> 0, before |-> {},
     synced |-> {}, failed |-> {}, response |-> NoResponse]

SyncIdle == [s \in SyncRequests |-> SyncRequestIdle]

CallIdle == [pc |-> "idle", handle |-> "none", result |-> "none"]

\* the singleton once init has resolved: the connection is open, the tables
\* exist and no transaction is open on it
Serving ==
    [database |-> "instance", db |-> "ready", inits |-> 1, transaction |-> <<>>,
     calls |-> [c \in Callers |-> CallIdle]]

\* ------------------------------------------------------------------ lib/encryption

\* what a call gives: a returned value, or a thrown error and its message
Return(v) == [ok |-> TRUE, val |-> v]
Throw(msg) == [ok |-> FALSE, val |-> msg]

TypeErrorMsg == "crypto.createCipherGCM is not a function"
DecryptDataMsg == "Failed to decrypt data. Invalid passphrase or corrupted data."
DecryptTokenMsg == "Failed to decrypt refresh token. Invalid passphrase or corrupted data."

AAD == "localdrivehub"

\* PBKDF2-SHA256, 100000 iterations: a collision-free function of passphrase and salt
deriveKey(passphrase, salt) == <<"pbkdf2", passphrase, salt>>

\* string -> Buffer: a string that is not well-formed UTF-16 encodes to the
\* bytes of U+FFFD, so decoding does not give it back
Utf8Encode(s) == IF s = "\\uD800" THEN <<"utf8", "\\uFFFD">> ELSE <<"utf8", s>>
Utf8Decode(b) == b[2]
ToHex(b) == <<"hex", b>>
FromHex(h) == h[2]

\* AES-256-GCM: the ciphertext and the tag are functions of key, iv, AAD and
\* plaintext; the tag verifies under the same key, iv, AAD and ciphertext only
GcmCiphertext(key, iv, bytes) == <<"ct", key, iv, bytes>>
GcmTag(key, iv, aad, ct) == <<"tag", key, iv, aad, ct>>
GcmOpen(key, iv, ct) == ct[4]

\* the text is hex-encoded without passing through the cipher
MutantEncryptWithPassphrase(data, passphrase, salt, iv, gcm) ==
    IF ~gcm THEN Throw(TypeErrorMsg)
    ELSE LET key == deriveKey(passphrase, salt)
             bytes == Utf8Encode(data)
         IN Return([encryptedData |-> ToHex(bytes),
                    iv |-> ToHex(iv),
                    tag |-> ToHex(GcmTag(key, iv, AAD, bytes)),
                    salt |-> ToHex(salt)])

\* crypto.createCipherGCM is called outside any try: where the runtime has no
\* such function the call throws a TypeError
encryptWithPassphrase(data, passphrase, salt, iv, gcm) ==
    IF ~gcm THEN Throw(TypeErrorMsg)
    ELSE LET key == deriveKey(passphrase, salt)
             ct == GcmCiphertext(key, iv, Utf8Encode(data))
         IN Return([encryptedData |-> ToHex(ct),
                    iv |-> ToHex(iv),
                    tag |-> ToHex(GcmTag(key, iv, AAD, ct)),
                    salt |-> ToHex(salt)])

\* everything thrown inside the try, the missing createDecipherGCM included,
\* becomes the one decrypt error
decryptWithPassphrase(encryptedData, passphrase, gcm) ==
    IF ~gcm THEN Throw(DecryptDataMsg)
    ELSE LET salt == FromHex(encryptedData.salt)
             key == deriveKey(passphrase, salt)
             iv == FromHex(encryptedData.iv)
             tag == FromHex(encryptedData.tag)
             ct == FromHex(encryptedData.encryptedData)
         IN IF tag = GcmTag(key, iv, AAD, ct)
            THEN Return(Utf8Decode(GcmOpen(key, iv, ct)))
            ELSE Throw(DecryptDataMsg)

JsonStringify(x) == <<"json", x>>
IsJson(s) == s[1] = "json"
JsonParse(s) == s[2]

encryptRefreshToken(refreshToken, passphrase, salt, iv, gcm) ==
    LET encrypted == encryptWithPassphrase(refreshToken, passphrase, salt, iv, gcm)
    IN IF encrypted.ok THEN Return(JsonStringify(encrypted.val)) ELSE encrypted

\* the inner error is passed on as it is
MutantDecryptRefreshToken(encryptedToken, passphrase, gcm) ==
    IF ~IsJson(encryptedToken) THEN Throw(DecryptTokenMsg)
    ELSE decryptWithPassphrase(JsonParse(encryptedToken), passphrase, gcm)

\* JSON.parse and decryptWithPassphrase are inside one try whose catch throws
\* the one message
decryptRefreshToken(encryptedToken, passphrase, gcm) ==
    IF ~IsJson(encryptedToken) THEN Throw(DecryptTokenMsg)
    ELSE LET r == decryptWithPassphrase(JsonParse(encryptedToken), passphrase, gcm)
         IN IF r.ok THEN r ELSE Throw(DecryptTokenMsg)

\* ------------------------------------------------------------------ the vault exercised alone

VaultIdle == [pc |-> "idle", secret |-> "", passphrase |-> "", blob |-> Throw(""),
              altered |-> "", passphrase2 |-> "", out |-> Throw("")]

\* a stored blob altered outside the program: one field replaced by the hex of
\* other bytes, or the text no longer JSON
Alterations == {"encryptedData", "iv", "tag", "salt", "text"}
OtherBytes(part, bytes) ==
    CASE part = "encryptedData" -> [bytes EXCEPT ![4] = Utf8Encode("other")]
      [] part = "tag" -> [bytes EXCEPT ![4] = "other"]
      [] OTHER -> "other"
Altered(blob, part) ==
    IF part = "text" THEN <<"not json">>
    ELSE JsonStringify([JsonParse(blob) EXCEPT ![part] = ToHex(OtherBytes(part, FromHex(@)))])

VaultInit ==
    /\ hasCipherGCM \in BOOLEAN
    /\ now = 0
    /\ accounts = <<>>
    /\ files_metadata = <<>>
    /\ uploads = <<>>
    /\ drive = <<>>
    /\ req = <<>>
    /\ zip = ZipIdle
    /\ removal = RemovalIdle
    /\ vault = VaultIdle
    /\ sync = SyncIdle
    /\ sqlite = Serving

VaultEncrypt ==
    /\ vault.pc = "idle"
    /\ \E secret \in Secrets, p \in Passphrases, salt \in RandomBytes, iv \in RandomBytes :
         vault' = [vault EXCEPT !.pc = "encrypted", !.secret = secret, !.passphrase = p,
                                !.blob = encryptRefreshToken(secret, p, salt, iv, hasCipherGCM)]
    /\ UNCHANGED <<hasCipherGCM, now, accounts, files_metadata, uploads, drive, req, zip, removal,
                 sync, sqlite>>

VaultDecrypt ==
    /\ vault.pc = "encrypted"
    /\ vault.blob.ok
    /\ \E p2 \in Passphrases :
         vault' = [vault EXCEPT !.pc = "decrypted", !.passphrase2 = p2,
                                !.out = decryptRefreshToken(vault.blob.val, p2, hasCipherGCM)]
    /\ UNCHANGED <<hasCipherGCM, now, accounts, files_metadata, uploads, drive, req, zip, removal,
                 sync, sqlite>>

VaultAlter ==
    /\ vault.pc = "encrypted"
    /\ vault.blob.ok
    /\ vault.altered = ""
    /\ \E part \in Alterations :
         vault' = [vault EXCEPT !.altered = part, !.blob = Return(Altered(vault.blob.val, part))]
    /\ UNCHANGED <<hasCipherGCM, now, accounts, files_metadata, uploads, drive, req, zip, removal,
                 sync, sqlite>>

VaultNext == VaultEncrypt \/ VaultAlter \/ VaultDecrypt

SpecVault == VaultInit /\ [][VaultNext]_vars

\* C4: decryptRefreshToken(encryptRefreshToken(secret, p), p) returns secret, and
\* with any other passphrase it fails with the decryption error
C4_RoundTrip ==
    /\ vault.pc = "encrypted" => vault.blob.ok
    /\ vault.pc = "decrypted" /\ vault.altered = "" =>
         IF vault.passphrase2 = vault.passphrase
         THEN vault.out.ok /\ vault.out.val = vault.secret
         ELSE ~vault.out.ok /\ vault.out.val = DecryptTokenMsg

\* C16: decryptRefreshToken fails in one way only: with a passphrase other than
\* the one of the encryption, with an altered field, and with a text that is
\* not JSON, the outcome is the same error with the same message
C16_OneDecryptionError ==
    vault.pc = "decrypted" /\ (vault.altered # "" \/ vault.passphrase2 # vault.passphrase) =>
        vault.out = Throw(DecryptTokenMsg)

\* decryption has failed on an altered tag under the right passphrase
C16_Witness ==
    /\ vault.pc = "decrypted"
    /\ vault.altered = "tag"
    /\ vault.passphrase2 = vault.passphrase
    /\ ~vault.out.ok

\* ------------------------------------------------------------------ lib/database

\* INSERT OR REPLACE INTO accounts
saveAccount(tbl, account) == (account.id :> account) @@ tbl

HasAccount(tbl, id) == id \in DOMAIN tbl

\* DELETE FROM accounts, the WHERE clause lost
MutantDeleteAccount(tbl, id) == IF id \in DOMAIN tbl THEN <<>> ELSE tbl

\* DELETE FROM accounts WHERE id = ?; the connection never turns foreign keys
\* on, so no row of another table goes with it
deleteAccount(tbl, id) == [x \in DOMAIN tbl \ {id} |-> tbl[x]]

\* SELECT * FROM files_metadata ORDER BY modified_time DESC
RECURSIVE getFiles(_)
getFiles(tbl) ==
    IF DOMAIN tbl = {} THEN <<>>
    ELSE LET first == CHOOSE id \in DOMAIN tbl :
                          \A x \in DOMAIN tbl : tbl[x].modified_time <= tbl[id].modified_time
         IN <<tbl[first]>> \o getFiles([x \in DOMAIN tbl \ {first} |-> tbl[x]])

\* INSERT OR REPLACE INTO files_metadata, one row per file, in one transaction
saveFileMetadata(tbl, files) ==
    [id \in DOMAIN tbl \cup {f.id : f \in files} |->
        IF \E f \in files : f.id = id THEN CHOOSE f \in files : f.id = id ELSE tbl[id]]

\* DELETE FROM files_metadata, the WHERE clause lost
MutantClearFileMetadata(tbl, accountId) == <<>>

\* DELETE FROM files_metadata WHERE account_id = ?
clearFileMetadata(tbl, accountId) ==
    [id \in {x \in DOMAIN tbl : tbl[x].account_id # accountId} |-> tbl[id]]

\* INSERT OR REPLACE INTO uploads, under an id generateId has just drawn
saveUpload(tbl, upload) == Append(tbl, upload)

\* the UPDATE without its WHERE clause
MutantUpdateUploadStatus(tbl, id, status, errorMessage) ==
    [k \in DOMAIN tbl |-> [tbl[k] EXCEPT !.status = status, !.error_message = errorMessage]]

\* UPDATE uploads SET status = ?, completed_at = ?, error_message = ? WHERE id = ?
updateUploadStatus(tbl, id, status, errorMessage) ==
    [k \in DOMAIN tbl |->
        IF tbl[k].id = id
        THEN [tbl[k] EXCEPT !.status = status, !.error_message = errorMessage]
        ELSE tbl[k]]

\* ------------------------------------------------------------------ lib/google-drive

\* about.get: storageQuota carries its numbers as strings, and no limit at all
\* for an account whose storage is not metered
Str(n) == <<"str", n>>
ParseInt(x) == x[2]
StorageQuota(d) ==
    IF "limit" \in DOMAIN d
    THEN [limit |-> Str(d.limit), usage |-> Str(d.usage)]
    ELSE [usage |-> Str(d.usage)]

\* quota.<field> || '0'
OrZero(quota, field) == IF field \in DOMAIN quota THEN quota[field] ELSE Str(0)

getQuota(d) ==
    LET quota == StorageQuota(d)
    IN [bytesTotal |-> ParseInt(OrZero(quota, "limit")),
        bytesUsed |-> ParseInt(OrZero(quota, "usage"))]

MutantAvailableSpace(d) == getQuota(d).bytesTotal

getAvailableSpace(d) == getQuota(d).bytesTotal - getQuota(d).bytesUsed

convertToFileMetadata(driveFile, accountId) ==
    [id |-> <<accountId, "-", driveFile.id>>,
     name |-> driveFile.name,
     account_id |-> accountId,
     drive_file_id |-> driveFile.id,
     modified_time |-> driveFile.modifiedTime]

\* Google's side of each account before anything is connected
DriveStates ==
    {d \in [AccountIds -> [limit : 0..5, usage : 0..5, issued : {0}, refresh_token : RefreshTokens,
                            email : {Emails[a] : a \in AccountIds},
                            files : {DriveFiles[a] : a \in AccountIds}]] :
        /\ \A a \in AccountIds : d[a].files = DriveFiles[a] /\ d[a].email = Emails[a]
        /\ \A a \in AccountIds : [limit |-> d[a].limit, usage |-> d[a].usage] \in Quotas[a]
        /\ d["A"].refresh_token = "rtA"
        /\ d["B"].refresh_token = "rtB"}

\* ------------------------------------------------------------------ api/auth/callback

TOKEN_LIFETIME == 1   \* 3600000 ms

\* lines 60-89: the tokens of the code exchange, the quota read and the
\* encrypted refresh token make the account row; a throw anywhere gives no row
CallbackAccount(a, d, passphrase, salt, iv, t, gcm) ==
    LET quota == getQuota(d)
        encrypted == encryptRefreshToken(d.refresh_token, passphrase, salt, iv, gcm)
    IN IF ~encrypted.ok THEN encrypted
       ELSE Return([id |-> a,
                    email |-> d.email,
                    refresh_token |-> encrypted.val,
                    access_token |-> d.issued + 1,
                    token_expiry |-> t + TOKEN_LIFETIME,
                    quota_bytes_total |-> quota.bytesTotal,
                    quota_bytes_used |-> quota.bytesUsed])

\* GET /api/auth/callback for the Google user a, the whole handler, with the
\* passphrase of the OAuth state and the bytes crypto.randomBytes returns
Connect(a, passphrase, salt, iv) ==
    /\ drive[a].issued < MaxTokens
    /\ LET account == CallbackAccount(a, drive[a], passphrase, salt, iv, now, hasCipherGCM)
       IN /\ drive' = [drive EXCEPT ![a].issued = @ + 1]
          /\ accounts' = IF account.ok THEN saveAccount(accounts, account.val) ELSE accounts
    /\ UNCHANGED <<hasCipherGCM, now, files_metadata, uploads, req, zip, removal, vault,
                 sync, sqlite>>

OAuthCallback(a) ==
    \E passphrase \in Passphrases, salt \in RandomBytes, iv \in RandomBytes :
        Connect(a, passphrase, salt, iv)

\* ------------------------------------------------------------------ api/upload

ReqIdle == [kind |-> "none", pc |-> "idle", targetAccountId |-> "", passphrase |-> "",
            files |-> <<>>, file |-> <<>>, account |-> <<>>, accessToken |-> 0, refreshed |-> FALSE,
            availableSpace |-> 0, ids |-> <<>>, settled |-> {}, succeeded |-> {},
            received |-> <<>>, response |-> NoResponse]

\* the handler returns: its locals are gone, the response is what remains
Respond(r, status, error) ==
    [ReqIdle EXCEPT !.kind = r.kind, !.pc = "done", !.response = Response(status, error)]

\* !accessToken || (account.token_expiry && account.token_expiry < Date.now())
NeedsRefresh(account, t) ==
    account.access_token = 0 \/ (account.token_expiry # 0 /\ account.token_expiry < t)

MutantInsufficientSpace(totalSize, availableSpace) == totalSize < availableSpace

\* totalSize > availableSpace
InsufficientSpace(totalSize, availableSpace) == totalSize > availableSpace

\* lines 110-147: the form is read, the account fetched and, when the cached
\* token is missing or expired, the refresh token decrypted and the exchange sent
UploadStart(r) ==
    /\ req[r].pc = "idle"
    /\ \E files \in Batches, targetAccountId \in AccountIds \cup {""}, passphrase \in Passphrases \cup {""} :
         LET rq == [req[r] EXCEPT !.kind = "upload", !.files = files,
                                  !.targetAccountId = targetAccountId, !.passphrase = passphrase]
         IN req' = [req EXCEPT ![r] =
              IF Len(files) = 0 \/ targetAccountId = ""
              THEN Respond(rq, 400, "Files and target account are required")
              ELSE IF ~HasAccount(accounts, targetAccountId)
              THEN Respond(rq, 404, "Target account not found")
              ELSE LET account == accounts[targetAccountId]
                   IN IF ~NeedsRefresh(account, now)
                      THEN [rq EXCEPT !.pc = "space", !.accessToken = account.access_token]
                      ELSE IF passphrase = ""
                      THEN Respond(rq, 401, "Passphrase required to refresh token")
                      ELSE IF ~decryptRefreshToken(account.refresh_token, passphrase, hasCipherGCM).ok
                      THEN Respond(rq, 500, "Upload failed")
                      ELSE [rq EXCEPT !.pc = "refresh", !.account = account]]
    /\ UNCHANGED <<hasCipherGCM, now, accounts, files_metadata, uploads, drive, zip, removal, vault,
                 sync, sqlite>>

\* lines 147-156: the exchange answers; the new token is written back over the
\* account row as it was read at the start, which the handler reads no more
UploadRefreshed(r) ==
    /\ req[r].kind = "upload"
    /\ req[r].pc = "refresh"
    /\ LET a == req[r].targetAccountId
           accessToken == drive[a].issued + 1
           updatedAccount == [req[r].account EXCEPT !.access_token = accessToken,
                                                    !.token_expiry = now + TOKEN_LIFETIME]
       IN \/ /\ drive[a].issued < MaxTokens
             /\ drive' = [drive EXCEPT ![a].issued = @ + 1]
             /\ accounts' = saveAccount(accounts, updatedAccount)
             /\ req' = [req EXCEPT ![r].pc = "space", ![r].accessToken = accessToken,
                                   ![r].refreshed = TRUE, ![r].account = <<>>]
          \/ /\ req' = [req EXCEPT ![r] = Respond(@, 500, "Upload failed")]
             /\ UNCHANGED <<drive, accounts>>
    /\ UNCHANGED <<hasCipherGCM, now, files_metadata, uploads, zip, removal, vault, sync, sqlite>>

\* files.map(...): every file's row is saved before its upload begins
RECURSIVE saveUploads(_, _)
saveUploads(tbl, rows) ==
    IF rows = <<>> THEN tbl ELSE saveUploads(saveUpload(tbl, Head(rows)), Tail(rows))

\* lines 177-188: the rows of the batch, generateId() giving each a fresh id
NewUploads(tbl, files, targetAccountId) ==
    [i \in 1..Len(files) |->
        [id |-> Len(tbl) + i, file_size |-> files[i], target_account_id |-> targetAccountId,
         status |-> "uploading", progress_bytes |-> 0, error_message |-> ""]]

\* lines 164-189: the live free space is read and compared with the size of the
\* whole batch; if it fits, one upload row per file is saved
UploadCheckSpace(r) ==
    /\ req[r].kind = "upload"
    /\ req[r].pc = "space"
    /\ LET a == req[r].targetAccountId
           availableSpace == getAvailableSpace(drive[a])
           totalSize == SumSeq(req[r].files)
           rows == NewUploads(uploads, req[r].files, a)
       IN \/ /\ InsufficientSpace(totalSize, availableSpace)
             /\ req' = [req EXCEPT ![r] =
                          Respond(@, 400, "Insufficient storage space in target account")]
             /\ UNCHANGED uploads
          \/ /\ ~InsufficientSpace(totalSize, availableSpace)
             /\ uploads' = saveUploads(uploads, rows)
             /\ req' = [req EXCEPT ![r].pc = "uploading", ![r].availableSpace = availableSpace,
                                   ![r].ids = [i \in 1..Len(rows) |-> rows[i].id],
                                   ![r].received = [i \in 1..Len(rows) |-> 0]]
          \/ /\ req' = [req EXCEPT ![r] = Respond(@, 500, "Upload failed")]
             /\ UNCHANGED uploads
    /\ UNCHANGED <<hasCipherGCM, now, accounts, files_metadata, drive, zip, removal, vault,
                 sync, sqlite>>

\* lines 191-215: one file's uploadFile settles; the row becomes completed or
\* failed. received is how much of the file the remote had acknowledged when
\* files.create returned or threw (uploadType: 'resumable' for these sizes)
UploadFileSettled(r, i) ==
    /\ req[r].kind = "upload"
    /\ req[r].pc = "uploading"
    /\ i \in DOMAIN req[r].files
    /\ i \notin req[r].settled
    /\ LET a == req[r].targetAccountId
           size == req[r].files[i]
       IN \/ /\ drive[a].usage + size <= drive[a].limit
             /\ drive' = [drive EXCEPT ![a].usage = @ + size]
             /\ uploads' = updateUploadStatus(uploads, req[r].ids[i], "completed", "")
             /\ req' = [req EXCEPT ![r].settled = @ \cup {i}, ![r].succeeded = @ \cup {i},
                                   ![r].received[i] = size]
          \/ /\ uploads' = updateUploadStatus(uploads, req[r].ids[i], "failed",
                                              "Failed to upload file to Drive")
             /\ \E acknowledged \in 0..(size - 1) :
                  req' = [req EXCEPT ![r].settled = @ \cup {i}, ![r].received[i] = acknowledged]
             /\ UNCHANGED drive
    /\ UNCHANGED <<hasCipherGCM, now, accounts, files_metadata, zip, removal, vault, sync, sqlite>>

\* lines 218-230: Promise.all has every file's result
UploadRespond(r) ==
    /\ req[r].kind = "upload"
    /\ req[r].pc = "uploading"
    /\ req[r].settled = DOMAIN req[r].files
    /\ req' = [req EXCEPT ![r] = Respond(@, 200, "")]
    /\ UNCHANGED <<hasCipherGCM, now, accounts, files_metadata, uploads, drive, zip, removal, vault,
                 sync, sqlite>>

\* ------------------------------------------------------------------ api/files

\* lines 100-108: the row syncAccountFiles writes back
SyncedAccount(account, accessToken, quota, t) ==
    [account EXCEPT !.access_token = accessToken,
                    !.token_expiry = t + TOKEN_LIFETIME,
                    !.quota_bytes_total = quota.bytesTotal,
                    !.quota_bytes_used = quota.bytesUsed]

\* syncAccountFiles(a, passphrase), called by GET /api/files?refresh=true: the
\* token is refreshed, the listing replaces the account's file rows, and the
\* quota and the token are written back over the row read at the start
SyncAccountFiles(a) ==
    /\ HasAccount(accounts, a)
    /\ \E passphrase \in Passphrases :
         LET account == accounts[a]
             refreshToken == decryptRefreshToken(account.refresh_token, passphrase, hasCipherGCM)
             accessToken == drive[a].issued + 1
             fileMetadata == {convertToFileMetadata(f, a) : f \in drive[a].files}
             quota == getQuota(drive[a])
             updatedAccount == SyncedAccount(account, accessToken, quota, now)
         IN \/ /\ ~refreshToken.ok
               /\ UNCHANGED <<accounts, files_metadata, drive>>
            \/ /\ refreshToken.ok
               /\ drive[a].issued < MaxTokens
               /\ drive' = [drive EXCEPT ![a].issued = @ + 1]
               /\ \/ /\ files_metadata' = saveFileMetadata(clearFileMetadata(files_metadata, a),
                                                           fileMetadata)
                     /\ accounts' = saveAccount(accounts, updatedAccount)
                  \/ /\ files_metadata' = saveFileMetadata(clearFileMetadata(files_metadata, a),
                                                           fileMetadata)
                     /\ UNCHANGED accounts                  \* the quota read throws
                  \/ UNCHANGED <<accounts, files_metadata>> \* the listing throws
    /\ UNCHANGED <<hasCipherGCM, now, uploads, req, zip, removal, vault, sync, sqlite>>

\* ------------------------------------------------------------------ api/accounts

\* PUT /api/accounts {accountId, passphrase}, the whole handler: the token is
\* refreshed, the live quota read and both written over the row read at the start
RefreshAccount(a) ==
    /\ HasAccount(accounts, a)
    /\ \E passphrase \in Passphrases :
         LET account == accounts[a]
             refreshToken == decryptRefreshToken(account.refresh_token, passphrase, hasCipherGCM)
             newAccessToken == drive[a].issued + 1
             updatedAccount == SyncedAccount(account, newAccessToken, getQuota(drive[a]), now)
         IN \/ /\ ~refreshToken.ok
               /\ UNCHANGED <<accounts, drive>>
            \/ /\ refreshToken.ok
               /\ drive[a].issued < MaxTokens
               /\ drive' = [drive EXCEPT ![a].issued = @ + 1]
               /\ \/ accounts' = saveAccount(accounts, updatedAccount)
                  \/ UNCHANGED accounts                     \* the quota read throws
    /\ UNCHANGED <<hasCipherGCM, now, files_metadata, uploads, req, zip, removal, vault,
                 sync, sqlite>>

\* DELETE /api/accounts?id=...: lines 38-47
RemovalStart ==
    /\ removal.pc = "idle"
    /\ \E accountId \in AccountIds \cup {"", "Z"} :
         removal' = IF accountId = ""
                    THEN [pc |-> "done", accountId |-> accountId,
                          response |-> Response(400, "Account ID is required")]
                    ELSE [pc |-> "deleting", accountId |-> accountId, response |-> NoResponse]
    /\ UNCHANGED <<hasCipherGCM, now, accounts, files_metadata, uploads, drive, req, zip, vault,
                 sync, sqlite>>

\* lines 49-55
RemovalRun ==
    /\ removal.pc = "deleting"
    /\ accounts' = deleteAccount(accounts, removal.accountId)
    /\ removal' = [removal EXCEPT !.pc = "done",
                                  !.response = Response(200, "Account deleted successfully")]
    /\ UNCHANGED <<hasCipherGCM, now, files_metadata, uploads, drive, req, zip, vault, sync, sqlite>>

RemovalReturn ==
    /\ removal.pc = "done"
    /\ removal' = RemovalIdle
    /\ UNCHANGED <<hasCipherGCM, now, accounts, files_metadata, uploads, drive, req, zip, vault,
                 sync, sqlite>>

\* ------------------------------------------------------------------ api/download

\* Object.entries(filesByAccount): the account ids in order of first appearance
RECURSIVE AccountsInOrder(_)
AccountsInOrder(files) ==
    IF files = <<>> THEN <<>>
    ELSE LET rest == AccountsInOrder(Tail(files))
             IsOther(a) == a # Head(files).account_id
         IN <<Head(files).account_id>> \o SelectSeq(rest, IsOther)

FilesOf(files, a) ==
    LET IsOfAccount(f) == f.account_id = a
    IN SelectSeq(files, IsOfAccount)

\* the ids a sync gives the listed files, and one id the index never holds
IndexedFileIds == UNION {{convertToFileMetadata(f, a).id : f \in DriveFiles[a]} : a \in AccountIds}
RequestableFileIds == IndexedFileIds \cup {<<"A", "-", "b1">>}

\* a rejection of handleSingleDownload is not caught by GET's try (the promise
\* is returned, not awaited): the framework answers
Unhandled == Response(500, "Internal Server Error")

\* GET /api/download?fileId=..., lines 271-342 up to the exchange
DownloadStart(r) ==
    /\ req[r].pc = "idle"
    /\ \E fileId \in RequestableFileIds, passphrase \in Passphrases \cup {""} :
         LET rq == [req[r] EXCEPT !.kind = "download", !.passphrase = passphrase]
             files == getFiles(files_metadata)
             IsRequested(f) == f.id = fileId
             found == SelectSeq(files, IsRequested)
         IN req' = [req EXCEPT ![r] =
              IF found = <<>>
              THEN Respond(rq, 404, "File not found")
              ELSE IF ~HasAccount(accounts, found[1].account_id)
              THEN Respond(rq, 404, "Account not found")
              ELSE LET account == accounts[found[1].account_id]
                       rq2 == [rq EXCEPT !.file = found[1], !.account = account,
                                         !.targetAccountId = account.id]
                   IN IF ~NeedsRefresh(account, now)
                      THEN [rq2 EXCEPT !.pc = "download", !.accessToken = account.access_token]
                      ELSE IF passphrase = ""
                      THEN Respond(rq, 401, "Passphrase required to refresh token")
                      ELSE IF ~decryptRefreshToken(account.refresh_token, passphrase, hasCipherGCM).ok
                      THEN Respond(rq, Unhandled.status, Unhandled.error)
                      ELSE [rq2 EXCEPT !.pc = "refresh"]]
    /\ UNCHANGED <<hasCipherGCM, now, accounts, files_metadata, uploads, drive, zip, removal, vault,
                 sync, sqlite>>

\* line 341: the exchange answers; the new token stays in the handler
DownloadRefreshed(r) ==
    /\ req[r].kind = "download"
    /\ req[r].pc = "refresh"
    /\ LET a == req[r].targetAccountId
       IN \/ /\ drive[a].issued < MaxTokens
             /\ drive' = [drive EXCEPT ![a].issued = @ + 1]
             /\ req' = [req EXCEPT ![r].pc = "download", ![r].accessToken = drive[a].issued + 1,
                                   ![r].refreshed = TRUE]
          \/ /\ req' = [req EXCEPT ![r] = Respond(@, Unhandled.status, Unhandled.error)]
             /\ UNCHANGED drive
    /\ UNCHANGED <<hasCipherGCM, now, accounts, files_metadata, uploads, zip, removal, vault,
                 sync, sqlite>>

\* lines 344-358: the file's bytes arrive, or downloadFile throws
DownloadFile(r) ==
    /\ req[r].kind = "download"
    /\ req[r].pc = "download"
    /\ \/ req' = [req EXCEPT ![r] = Respond(@, 200, "")]
       \/ req' = [req EXCEPT ![r] = Respond(@, Unhandled.status, Unhandled.error)]
    /\ UNCHANGED <<hasCipherGCM, now, accounts, files_metadata, uploads, drive, zip, removal, vault,
                 sync, sqlite>>

\* lines 361-400: the requested rows are looked up and grouped by account, the
\* response is the stream, and start() asks for the first account
BulkStart ==
    /\ zip.pc = "idle"
    /\ \E fileIds \in SUBSET RequestableFileIds, passphrase \in Passphrases \cup {""} :
         LET allFiles == getFiles(files_metadata)
             IsRequested(f) == f.id \in fileIds
             files == SelectSeq(allFiles, IsRequested)
         IN /\ fileIds # {}
            /\ zip' = IF files = <<>>
                      THEN [ZipIdle EXCEPT !.pc = "done",
                                           !.response = Response(404, "No valid files found")]
                      ELSE [ZipIdle EXCEPT !.pc = "account", !.passphrase = passphrase,
                                           !.files = files, !.groups = AccountsInOrder(files),
                                           !.response = Response(200, "")]
    /\ UNCHANGED <<hasCipherGCM, now, accounts, files_metadata, uploads, drive, req, removal, vault,
                 sync, sqlite>>

\* the loop moves on to the account after the current one
NextAccount(z) == [z EXCEPT !.pc = "account", !.groups = Tail(@), !.account = <<>>,
                            !.accountFiles = <<>>, !.accessToken = 0]

\* lines 404-420: the account of the next group is read and its token taken
\* from the row or asked of Google
BulkAccount ==
    /\ zip.pc = "account"
    /\ zip.groups # <<>>
    /\ LET accountId == Head(zip.groups)
       IN zip' =
            IF ~HasAccount(accounts, accountId) THEN NextAccount(zip)
            ELSE LET account == accounts[accountId]
                     z == [zip EXCEPT !.account = account,
                                      !.accountFiles = FilesOf(zip.files, accountId)]
                 IN IF ~NeedsRefresh(account, now)
                    THEN [z EXCEPT !.pc = "files", !.accessToken = account.access_token]
                    ELSE IF zip.passphrase = "" THEN NextAccount(zip)
                    ELSE IF ~decryptRefreshToken(account.refresh_token, zip.passphrase, hasCipherGCM).ok
                    THEN [zip EXCEPT !.pc = "errored"]
                    ELSE [z EXCEPT !.pc = "refresh"]
    /\ UNCHANGED <<hasCipherGCM, now, accounts, files_metadata, uploads, drive, req, removal, vault,
                 sync, sqlite>>

\* line 420: the exchange answers; a rejection reaches the outer catch
BulkRefreshed ==
    /\ zip.pc = "refresh"
    /\ LET a == zip.account.id
       IN \/ /\ drive[a].issued < MaxTokens
             /\ drive' = [drive EXCEPT ![a].issued = @ + 1]
             /\ zip' = [zip EXCEPT !.pc = "files", !.accessToken = drive[a].issued + 1]
          \/ /\ zip' = [zip EXCEPT !.pc = "errored"]
             /\ UNCHANGED drive
    /\ UNCHANGED <<hasCipherGCM, now, accounts, files_metadata, uploads, req, removal, vault,
                 sync, sqlite>>

ContentEntry(account, file) ==
    [name |-> <<account.email, "/", file.name>>, file |-> file.id, content |-> "file"]
ErrorEntry(file) ==
    [name |-> <<"errors/", file.name, ".error.txt">>, file |-> file.id, content |-> "error"]

\* lines 429-442: the next file of the account is downloaded and appended, or
\* its error text is appended instead
BulkFile ==
    /\ zip.pc = "files"
    /\ zip.accountFiles # <<>>
    /\ LET file == Head(zip.accountFiles)
           Appended(entry) ==
               LET z == [zip EXCEPT !.entries = Append(@, entry), !.accountFiles = Tail(@)]
               IN IF z.accountFiles = <<>> THEN NextAccount(z) ELSE z
       IN \/ zip' = Appended(ContentEntry(zip.account, file))
          \/ zip' = Appended(ErrorEntry(file))
    /\ UNCHANGED <<hasCipherGCM, now, accounts, files_metadata, uploads, drive, req, removal, vault,
                 sync, sqlite>>

\* line 446: every group was visited; the archive is finalized and the stream closes
BulkFinalize ==
    /\ zip.pc = "account"
    /\ zip.groups = <<>>
    /\ zip' = [zip EXCEPT !.pc = "finalized"]
    /\ UNCHANGED <<hasCipherGCM, now, accounts, files_metadata, uploads, drive, req, removal, vault,
                 sync, sqlite>>

\* ------------------------------------------------------------------ the store

StoreInit ==
    /\ hasCipherGCM \in BOOLEAN
    /\ now = 0
    /\ accounts = <<>>
    /\ files_metadata = <<>>
    /\ uploads = <<>>
    /\ drive \in DriveStates
    /\ req = [r \in Requests |-> ReqIdle]
    /\ zip = ZipIdle
    /\ removal = RemovalIdle
    /\ vault = VaultIdle
    /\ sync = SyncIdle
    /\ sqlite = Serving

StoreNext ==
    \/ \E a \in AccountIds : OAuthCallback(a)
    \/ \E a \in AccountIds : SyncAccountFiles(a)
    \/ RemovalStart
    \/ RemovalRun
    \/ RemovalReturn

SpecStore == StoreInit /\ [][StoreNext]_vars

\* C9: removing an account succeeds and removes that row and nothing else of the
\* accounts table; removing an id that is not registered (a second removal, or
\* an unknown id) succeeds and leaves the whole store as it is
C9_RemoveIdempotent ==
    [][removal.pc = "deleting" /\ removal'.pc = "done" =>
          /\ removal'.response.status = 200
          /\ ~HasAccount(accounts', removal.accountId)
          /\ \A a \in DOMAIN accounts \ {removal.accountId} :
                HasAccount(accounts', a) /\ accounts'[a] = accounts[a]
          /\ ~HasAccount(accounts, removal.accountId) =>
                <<accounts', files_metadata', uploads'>> = <<accounts, files_metadata, uploads>>]_vars

\* the account is removed a second time while another account is registered
C9_Witness ==
    /\ removal.pc = "done"
    /\ removal.response.status = 200
    /\ removal.accountId \in AccountIds
    /\ ~HasAccount(accounts, removal.accountId)
    /\ accounts # <<>>
    /\ \E id \in DOMAIN files_metadata : files_metadata[id].account_id = removal.accountId

\* C10: every stored file row names an account that is registered
C10_FilesHaveAccounts ==
    \A id \in DOMAIN files_metadata : HasAccount(accounts, files_metadata[id].account_id)

\* ------------------------------------------------------------------ connections

\* the Google users who may authorize the application
GoogleUsers == {"A", "B", "C", "D", "E"}
GoogleEmails == [A |-> "a@gmail.com", B |-> "b@gmail.com", C |-> "c@gmail.com",
                 D |-> "d@gmail.com", E |-> "e@gmail.com"]

\* README: "Connect up to 4 Google Drive accounts"
MAX_ACCOUNTS == 4

ConnectInit ==
    /\ hasCipherGCM \in BOOLEAN
    /\ now = 0
    /\ accounts = <<>>
    /\ files_metadata = <<>>
    /\ uploads = <<>>
    /\ drive = [a \in GoogleUsers |->
                  [limit |-> 5, usage |-> 0, issued |-> 0, refresh_token |-> "rtA",
                   email |-> GoogleEmails[a], files |-> {}]]
    /\ req = [r \in Requests |-> ReqIdle]
    /\ zip = ZipIdle
    /\ removal = RemovalIdle
    /\ vault = VaultIdle
    /\ sync = SyncIdle
    /\ sqlite = Serving

ConnectNext ==
    \/ \E a \in GoogleUsers : Connect(a, "p1", "x1", "x2")
    \/ RemovalStart
    \/ RemovalRun
    \/ RemovalReturn

SpecConnect == ConnectInit /\ [][ConnectNext]_vars

\* C11: the store never holds more than 4 connected accounts
C11_AtMostFourAccounts == Cardinality(DOMAIN accounts) <= MAX_ACCOUNTS

\* ------------------------------------------------------------------ the clock

Tick ==
    /\ now < MaxTime
    /\ now' = now + 1
    /\ UNCHANGED <<hasCipherGCM, accounts, files_metadata, uploads, drive, req, zip, removal, vault,
                 sync, sqlite>>

\* ------------------------------------------------------------------ uploads

\* the uploads start from a store whose accounts went through the callback at
\* instant 0 under passphrase p1
UploadInit ==
    /\ hasCipherGCM \in BOOLEAN
    /\ now = 0
    /\ \E d \in DriveStates :
         /\ drive = [a \in AccountIds |-> [d[a] EXCEPT !.issued = IF hasCipherGCM THEN 1 ELSE 0]]
         /\ accounts = IF hasCipherGCM
                       THEN [a \in AccountIds |-> CallbackAccount(a, d[a], "p1", "x1", "x2", 0, TRUE).val]
                       ELSE <<>>
    /\ files_metadata = <<>>
    /\ uploads = <<>>
    /\ req = [r \in Requests |-> ReqIdle]
    /\ zip = ZipIdle
    /\ removal = RemovalIdle
    /\ vault = VaultIdle
    /\ sync = SyncIdle
    /\ sqlite = Serving

UploadNext ==
    \/ Tick
    \/ \E r \in Requests : UploadStart(r)
    \/ \E r \in Requests : UploadRefreshed(r)
    \/ \E r \in Requests : UploadCheckSpace(r)
    \/ \E r \in Requests : \E i \in DOMAIN req[r].files : UploadFileSettled(r, i)
    \/ \E r \in Requests : UploadRespond(r)

SpecUpload == UploadInit /\ [][UploadNext]_vars

FreeSpace(a) == drive[a].limit - drive[a].usage

\* the rows a step adds to the uploads table
AddedUploads == {uploads'[k] : k \in (Len(uploads) + 1)..Len(uploads')}

\* C1: no upload row is created (no file is placed) on an account whose free
\* capacity, as read for that placement, is smaller than the file's size
C1_NoPlacementBeyondFreeSpace ==
    [][\A u \in AddedUploads : u.file_size <= FreeSpace(u.target_account_id)]_vars

C1_Witness ==
    \E r \in Requests : req[r].pc = "uploading" /\ Len(req[r].files) = 2
                        /\ req[r].availableSpace = SumSeq(req[r].files) + 2

\* C3: operations that find the same account's cached token expired issue one
\* refresh exchange between them: no two exchanges for one account are in flight
C3_OneRefreshExchange ==
    \A r1, r2 \in Requests :
        req[r1].pc = "refresh" /\ req[r2].pc = "refresh"
        /\ req[r1].targetAccountId = req[r2].targetAccountId => r1 = r2

\* a file of request r that fits on no account
Unplaceable(r) ==
    \E i \in DOMAIN req[r].files : \A a \in AccountIds : req[r].files[i] > FreeSpace(a)

CapacityExceeded == Response(400, "Insufficient storage space in target account")

\* C7: when a file of the request is larger than the free capacity of every
\* account, the capacity check ends the request with the capacity error (or, if
\* the quota could not be read, with the request's failure) and the step
\* creates no upload row and sends nothing to the remote
C7_UnplaceableIsRejected ==
    [][\A r \in Requests :
          req[r].pc = "space" /\ req'[r].pc # "space" /\ Unplaceable(r) =>
             /\ uploads' = uploads
             /\ drive' = drive
             /\ req'[r].pc = "done"
             /\ req'[r].response \in {CapacityExceeded, Response(500, "Upload failed")}]_vars

\* account A alone has room, 1 GB of it, and a request was refused for capacity
C7_Witness ==
    /\ FreeSpace("A") = 1
    /\ FreeSpace("B") = 0
    /\ uploads = <<>>
    /\ \E r \in Requests : req[r].response = CapacityExceeded

\* C8: with A 5 GB free and B 2 GB free, a request for files of 3 GB and 4 GB
\* is placed as 4 GB on A and 3 GB on B
C8_LargestFirstPlan ==
    [][\A r \in Requests :
          /\ req[r].pc = "space" /\ req'[r].pc # "space"
          /\ req[r].files = <<3, 4>>
          /\ FreeSpace("A") = 5 /\ FreeSpace("B") = 2
          /\ req'[r].response.status # 500
          => /\ \E u \in AddedUploads : u.file_size = 4 /\ u.target_account_id = "A"
             /\ \E u \in AddedUploads : u.file_size = 3 /\ u.target_account_id = "B"]_vars

\* the upload row of file i of request r
UploadRow(tbl, r, i) ==
    LET k == CHOOSE k \in DOMAIN tbl : tbl[k].id = req[r].ids[i] IN tbl[k]

\* C12: an upload that is interrupted after the remote acknowledged part of the
\* file stays resumable from that offset: the job is paused with the acknowledged
\* offset recorded, so that a resume sends the remaining bytes and no others
C12_InterruptedUploadResumes ==
    [][\A r \in Requests : \A i \in DOMAIN req[r].files :
          /\ req[r].pc = "uploading" /\ i \notin req[r].settled
          /\ i \in req'[r].settled /\ i \notin req'[r].succeeded
          /\ req'[r].received[i] > 0
          => /\ UploadRow(uploads', r, i).status = "paused"
             /\ UploadRow(uploads', r, i).progress_bytes = req'[r].received[i]]_vars

\* the status changes the job machine allows
JobEdges == {<<"pending", "uploading">>, <<"uploading", "completed">>, <<"uploading", "failed">>,
             <<"uploading", "paused">>, <<"paused", "uploading">>}

\* every row the step keeps has its status unchanged or changed along an edge,
\* and every row the step adds has the status initial
JobMachine(initial) ==
    \A k \in DOMAIN uploads' :
        IF k \in DOMAIN uploads
        THEN \/ uploads'[k].status = uploads[k].status
             \/ <<uploads[k].status, uploads'[k].status>> \in JobEdges
        ELSE uploads'[k].status = initial

Uploading(tbl, a) ==
    {k \in DOMAIN tbl : tbl[k].status = "uploading" /\ tbl[k].target_account_id = a}

\* C18: at most one job per target account is uploading at any time
C18_OneUploadPerAccount ==
    \A a \in AccountIds : Cardinality(Uploading(uploads, a)) <= 1

\* the bytes the jobs in flight on account a will take
UploadingBytes(tbl, a) ==
    SumSeq([k \in DOMAIN tbl |-> IF k \in Uploading(tbl, a) THEN tbl[k].file_size ELSE 0])

\* C19: an upload starts only if the file fits in the account's live free space
\* as it is when that upload starts, the uploads already started on the account
\* counted: no upload starts on a value read before another upload was started
C19_SpaceReadPerFile ==
    [][\A a \in AccountIds :
          Uploading(uploads', a) # Uploading(uploads, a) /\ Len(uploads') > Len(uploads)
          => UploadingBytes(uploads', a) <= FreeSpace(a)]_vars

\* the calls of uploadFile the route has seen return or throw for file i of request r
Attempts(r, i) == IF i \in req[r].settled THEN 1 ELSE 0

\* C20: a job is marked failed only after its upload was attempted again: a
\* single failed attempt does not end the job
C20_FailedOnlyAfterRetry ==
    \A r \in Requests : \A i \in DOMAIN req[r].ids :
        req[r].pc = "uploading" /\ UploadRow(uploads, r, i).status = "failed" => Attempts(r, i) > 1

\* ------------------------------------------------------------------ uploads beside quota refreshes

\* the one upload that runs beside the quota refreshes
QuotaRequests == {"r1"}

\* the accounts went through the callback at instant 0 under passphrase p1, when
\* their drives held connected[a].usage; other clients of Drive have changed
\* the usage since
QuotaInit ==
    /\ hasCipherGCM \in BOOLEAN
    /\ now = 0
    /\ \E connected \in DriveStates, d \in DriveStates :
         /\ drive = [a \in AccountIds |-> [d[a] EXCEPT !.issued = IF hasCipherGCM THEN 1 ELSE 0]]
         /\ accounts = IF hasCipherGCM
                       THEN [a \in AccountIds |->
                               CallbackAccount(a, connected[a], "p1", "x1", "x2", 0, TRUE).val]
                       ELSE <<>>
    /\ files_metadata = <<>>
    /\ uploads = <<>>
    /\ req = [r \in Requests |-> ReqIdle]
    /\ zip = ZipIdle
    /\ removal = RemovalIdle
    /\ vault = VaultIdle
    /\ sync = SyncIdle
    /\ sqlite = Serving

QuotaNext ==
    \/ Tick
    \/ \E r \in QuotaRequests : UploadStart(r)
    \/ \E r \in QuotaRequests : UploadRefreshed(r)
    \/ \E r \in QuotaRequests : UploadCheckSpace(r)
    \/ \E r \in QuotaRequests : \E i \in DOMAIN req[r].files : UploadFileSettled(r, i)
    \/ \E r \in QuotaRequests : UploadRespond(r)
    \/ \E a \in AccountIds : RefreshAccount(a)

SpecQuota == QuotaInit /\ [][QuotaNext]_vars

StoredQuota(tbl, a) == <<tbl[a].quota_bytes_total, tbl[a].quota_bytes_used>>
LiveQuota(d) == <<getQuota(d).bytesTotal, getQuota(d).bytesUsed>>

\* C13: the stored quota of an account changes only by being set to the values
\* the remote reports at that moment; no step puts another (older) snapshot there
C13_QuotaChangesOnlyByRefresh ==
    [][\A a \in DOMAIN accounts \cap DOMAIN accounts' :
          StoredQuota(accounts', a) # StoredQuota(accounts, a)
          => StoredQuota(accounts', a) = LiveQuota(drive'[a])]_vars

\* ------------------------------------------------------------------ downloads

\* the downloads start from a store whose accounts went through the callback
\* and one sync at instant 0 under passphrase p1
DownloadInit ==
    /\ hasCipherGCM \in BOOLEAN
    /\ now = 0
    /\ \E d \in DriveStates :
         LET Connected(a) == CallbackAccount(a, d[a], "p1", "x1", "x2", 0, TRUE).val
         IN /\ drive = [a \in AccountIds |-> [d[a] EXCEPT !.issued = IF hasCipherGCM THEN 2 ELSE 0]]
            /\ accounts = IF hasCipherGCM
                          THEN [a \in AccountIds |-> SyncedAccount(Connected(a), 2, getQuota(d[a]), 0)]
                          ELSE <<>>
            /\ files_metadata =
                 IF hasCipherGCM
                 THEN saveFileMetadata(<<>>, UNION {{convertToFileMetadata(f, a) : f \in d[a].files} :
                                                     a \in AccountIds})
                 ELSE <<>>
    /\ uploads = <<>>
    /\ req = [r \in Requests |-> ReqIdle]
    /\ zip = ZipIdle
    /\ removal = RemovalIdle
    /\ vault = VaultIdle
    /\ sync = SyncIdle
    /\ sqlite = Serving

DownloadNext ==
    \/ Tick
    \/ \E r \in DownloadRequests : DownloadStart(r)
    \/ \E r \in DownloadRequests : DownloadRefreshed(r)
    \/ \E r \in DownloadRequests : DownloadFile(r)
    \/ BulkStart
    \/ BulkAccount
    \/ BulkRefreshed
    \/ BulkFile
    \/ BulkFinalize

SpecDownload == DownloadInit /\ [][DownloadNext]_vars

EntriesOf(fileId) == {k \in DOMAIN zip.entries : zip.entries[k].file = fileId}

\* C2: the archive over the N files found for the request is finalized, never
\* aborted, and holds exactly N entries, one per file: its content or its
\* error marker
C2_ArchiveComplete ==
    /\ zip.pc # "errored"
    /\ zip.pc = "finalized" =>
         /\ Len(zip.entries) = Len(zip.files)
         /\ \A k \in DOMAIN zip.files : Cardinality(EntriesOf(zip.files[k].id)) = 1

\* C22: the archive is finalized only after a download attempt was made for
\* every requested file, so that at finalize each requested file has its
\* content entry or its error-marker entry, and no entry is appended once the
\* archive is finalized
C22_FinalizedAfterEveryAttempt ==
    [][/\ zip'.pc = "finalized" =>
            \A k \in DOMAIN zip'.files :
                \E e \in DOMAIN zip'.entries : zip'.entries[e].file = zip'.files[k].id
       /\ zip.pc = "finalized" => zip'.entries = zip.entries]_vars

\* C5: when a request ends a refresh exchange with a new token, the stored
\* account holds that token with an expiry later than the current instant
C5_RefreshUpdatesCache ==
    [][/\ \A r \in Requests :
            req[r].pc = "refresh" /\ req'[r].accessToken # req[r].accessToken
            /\ HasAccount(accounts', req[r].targetAccountId) =>
               /\ accounts'[req[r].targetAccountId].access_token = req'[r].accessToken
               /\ accounts'[req[r].targetAccountId].token_expiry > now
       /\ zip.pc = "refresh" /\ zip'.pc = "files" /\ HasAccount(accounts', zip.account.id) =>
               /\ accounts'[zip.account.id].access_token = zip'.accessToken
               /\ accounts'[zip.account.id].token_expiry > now]_vars

\* C6: an operation that finds the account's cached token missing or expired
\* and was given no passphrase reports the passphrase-required error to its
\* caller and makes no call to the account's remote storage
C6_PassphraseRequiredReported ==
    [][/\ \A r \in Requests :
            /\ req[r].pc = "idle" /\ req'[r].pc # "idle" /\ req'[r].passphrase = ""
            /\ req'[r].pc # "done"
            => ~NeedsRefresh(req'[r].account, now)
       /\ /\ zip.pc = "account" /\ zip' # zip /\ zip.groups # <<>>
          /\ zip.passphrase = ""
          /\ HasAccount(accounts, Head(zip.groups))
          /\ NeedsRefresh(accounts[Head(zip.groups)], now)
          => /\ drive' = drive
             /\ \/ zip'.pc = "errored"
                \/ Len(zip'.entries) > Len(zip.entries)]_vars

\* the account whose credential the bulk download is obtaining
BulkCurrentAccount == IF zip.pc = "refresh" THEN zip.account.id ELSE Head(zip.groups)

\* a step of the bulk download that ends its attempt to obtain the credential
\* of the current account without a token
BulkCredentialFails ==
    \/ zip.pc = "account" /\ zip.groups # <<>> /\ zip' # zip /\ zip'.pc \notin {"files", "refresh"}
    \/ zip.pc = "refresh" /\ zip'.pc # "files"

\* C14: a credential failure for one account of a bulk download does not abort
\* the archive: every file of that account gets its error marker and the
\* archive goes on to the other accounts
C14_CredentialFailureIsMarked ==
    [][BulkCredentialFails =>
          /\ zip'.pc = "account"
          /\ \A k \in DOMAIN zip.files :
                zip.files[k].account_id = BulkCurrentAccount =>
                   \E e \in DOMAIN zip'.entries : zip'.entries[e] = ErrorEntry(zip.files[k])]_vars

\* ------------------------------------------------------------------ every writer of the accounts table

\* nothing is connected and the drives are empty
SecretsInit ==
    /\ StoreInit
    /\ \A a \in AccountIds : drive[a].usage = 0

\* the one Google user who connects, and reconnects, here
SecretsUsers == {"A"}

SecretsNext ==
    \/ Tick
    \/ \E a \in SecretsUsers, passphrase \in Passphrases : Connect(a, passphrase, "x1", "x2")
    \/ \E a \in SecretsUsers : SyncAccountFiles(a)
    \/ \E a \in SecretsUsers : RefreshAccount(a)
    \/ \E r \in QuotaRequests : UploadStart(r)
    \/ \E r \in QuotaRequests : UploadRefreshed(r)
    \/ \E r \in QuotaRequests : UploadCheckSpace(r)
    \/ \E r \in QuotaRequests : \E i \in DOMAIN req[r].files : UploadFileSettled(r, i)
    \/ \E r \in QuotaRequests : UploadRespond(r)

SpecSecrets == SecretsInit /\ [][SecretsNext]_vars

\* the encryptedData of a stored blob came out of the AES-GCM cipher, under a
\* key derived from a passphrase, and is not the encoded text itself
IsSealed(blob) ==
    LET bytes == FromHex(JsonParse(blob).encryptedData)
    IN bytes[1] = "ct" /\ bytes[2][1] = "pbkdf2"

\* C15: the refresh_token column of every stored account is a sealed blob of
\* encryptRefreshToken, and neither the id nor the email column holds a refresh
\* token or a passphrase
C15_NoPlaintextSecretStored ==
    \A a \in DOMAIN accounts :
        /\ IsJson(accounts[a].refresh_token)
        /\ IsSealed(accounts[a].refresh_token)
        /\ {accounts[a].id, accounts[a].email} \cap (RefreshTokens \cup Passphrases) = {}

\* the upload route has written a refreshed token back over a connected account
C15_Witness ==
    \E r \in QuotaRequests :
        /\ req[r].refreshed
        /\ HasAccount(accounts, req[r].targetAccountId)
        /\ accounts[req[r].targetAccountId].access_token = req[r].accessToken

\* ------------------------------------------------------------------ quota answers

\* the account as Google describes it when its storage has no limit
Unmetered(d) ==
    [usage |-> d.usage, issued |-> d.issued, refresh_token |-> d.refresh_token,
     email |-> d.email, files |-> d.files]

MeterInit ==
    /\ hasCipherGCM \in BOOLEAN
    /\ now = 0
    /\ accounts = <<>>
    /\ files_metadata = <<>>
    /\ uploads = <<>>
    /\ \E d \in DriveStates :
         drive \in {d, [d EXCEPT !["A"] = Unmetered(@)], [d EXCEPT !["B"] = Unmetered(@)]}
    /\ req = [r \in Requests |-> ReqIdle]
    /\ zip = ZipIdle
    /\ removal = RemovalIdle
    /\ vault = VaultIdle
    /\ sync = SyncIdle
    /\ sqlite = Serving

\* a listed file is moved to the trash on Google's side: the listing asks for
\* trashed=false
RemoteTrash(a) ==
    /\ \E f \in drive[a].files : drive' = [drive EXCEPT ![a].files = @ \ {f}]
    /\ UNCHANGED <<hasCipherGCM, now, accounts, files_metadata, uploads, req, zip, removal, vault,
                   sync, sqlite>>

MeterNext ==
    \/ \E a \in AccountIds : RemoteTrash(a)
    \/ \E a \in AccountIds : Connect(a, "p1", "x1", "x2")
    \/ \E a \in AccountIds : RefreshAccount(a)
    \/ \E a \in AccountIds : SyncAccountFiles(a)

SpecMeter == MeterInit /\ [][MeterNext]_vars

\* C24: every stored account has quota_bytes_used <= quota_bytes_total, whatever
\* quota answer the remote gave at connect, refresh or sync, so that the free
\* capacity computed from the row is never negative
C24_UsedWithinTotal ==
    \A a \in DOMAIN accounts : accounts[a].quota_bytes_used <= accounts[a].quota_bytes_total

\* ------------------------------------------------------------------ api/files, step by step

\* SELECT * FROM accounts ORDER BY created_at ASC: A was connected before B
getAccounts(tbl) ==
    LET IsStored(a) == HasAccount(tbl, a)
    IN SelectSeq(<<"A", "B">>, IsStored)

\* files.list ... orderBy: 'modifiedTime desc', page after page
RECURSIVE getAllFiles(_)
getAllFiles(files) ==
    IF files = {} THEN <<>>
    ELSE LET first == CHOOSE f \in files : \A g \in files : g.modifiedTime <= f.modifiedTime
         IN <<first>> \o getAllFiles(files \ {first})

\* the file rows of one account
RowsOf(tbl, a) == {tbl[id] : id \in {x \in DOMAIN tbl : tbl[x].account_id = a}}

\* what BEGIN TRANSACTION sets aside and ROLLBACK brings back: the connection's
\* tables, whoever wrote them
Tables == [accounts |-> accounts, files_metadata |-> files_metadata, uploads |-> uploads]

\* the request goes on with the account after the one at the head of its queue
NextInQueue(rq) ==
    [rq EXCEPT !.queue = Tail(@), !.pc = IF Len(rq.queue) > 1 THEN "read" ELSE "list",
               !.account = <<>>, !.accessToken = 0, !.fileMetadata = <<>>, !.inserted = 0,
               !.before = {}]

\* every account's failure ends the request
MutantThrown(rq) ==
    [SyncRequestIdle EXCEPT !.pc = "done", !.accountId = rq.accountId,
                            !.passphrase = rq.passphrase,
                            !.synced = rq.synced, !.failed = rq.failed \cup {Head(rq.queue)},
                            !.response = Response(500, "Failed to fetch files")]

\* syncAccountFiles throws for the account at the head of the queue: GET's outer
\* catch answers 500 when one account was asked for (line 20, lines 58-63);
\* the loop over all accounts logs and goes on (lines 24-30)
Thrown(rq) ==
    IF rq.accountId # ""
    THEN [SyncRequestIdle EXCEPT !.pc = "done", !.accountId = rq.accountId,
                                 !.passphrase = rq.passphrase,
                                 !.synced = rq.synced, !.failed = rq.failed \cup {Head(rq.queue)},
                                 !.response = Response(500, "Failed to fetch files")]
    ELSE [NextInQueue(rq) EXCEPT !.failed = @ \cup {Head(rq.queue)}]

\* lines 9-23: the query is read; with refresh and a passphrase the accounts
\* to sync are the one named or all that are stored
SyncStart(s) ==
    /\ sync[s].pc = "idle"
    /\ \E accountId \in AccountIds \cup {""}, passphrase \in Passphrases \cup {""} :
         LET queue == IF passphrase = "" THEN <<>>
                      ELSE IF accountId # "" THEN <<accountId>>
                      ELSE getAccounts(accounts)
         IN sync' = [sync EXCEPT ![s] =
                [@ EXCEPT !.accountId = accountId, !.passphrase = passphrase, !.queue = queue,
                          !.pc = IF queue = <<>> THEN "list" ELSE "read"]]
    /\ UNCHANGED <<hasCipherGCM, now, accounts, files_metadata, uploads, drive, req, zip, removal,
                   vault, sqlite>>

\* lines 68-77: the account is read and its refresh token decrypted
SyncRead(s) ==
    /\ sync[s].pc = "read"
    /\ LET a == Head(sync[s].queue)
       IN sync' = [sync EXCEPT ![s] =
            IF ~HasAccount(accounts, a) THEN Thrown(@)
            ELSE IF ~decryptRefreshToken(accounts[a].refresh_token, @.passphrase, hasCipherGCM).ok
            THEN Thrown(@)
            ELSE [@ EXCEPT !.pc = "remote", !.account = accounts[a],
                           !.before = RowsOf(files_metadata, a)]]
    /\ UNCHANGED <<hasCipherGCM, now, accounts, files_metadata, uploads, drive, req, zip, removal,
                   vault, sqlite>>

\* lines 80-93: the exchange answers with a token or is rejected, and the
\* listing arrives whole or throws
SyncListed(s) ==
    /\ sync[s].pc = "remote"
    /\ LET a == Head(sync[s].queue)
           driveFiles == getAllFiles(drive[a].files)
       IN \/ /\ sync' = [sync EXCEPT ![s] = Thrown(@)]
             /\ UNCHANGED drive
          \/ /\ drive[a].issued < MaxTokens
             /\ drive' = [drive EXCEPT ![a].issued = @ + 1]
             /\ \/ sync' = [sync EXCEPT ![s] = Thrown(@)]
                \/ sync' = [sync EXCEPT ![s].pc = "clear",
                                        ![s].accessToken = drive[a].issued + 1,
                                        ![s].fileMetadata =
                                            [i \in 1..Len(driveFiles) |->
                                                convertToFileMetadata(driveFiles[i], a)]]
    /\ UNCHANGED <<hasCipherGCM, now, accounts, files_metadata, uploads, req, zip, removal,
                   vault, sqlite>>

\* lines 96-97
SyncClear(s) ==
    /\ sync[s].pc = "clear"
    /\ files_metadata' = clearFileMetadata(files_metadata, Head(sync[s].queue))
    /\ sync' = [sync EXCEPT ![s].pc = IF Len(sync[s].fileMetadata) > 0 THEN "begin" ELSE "quota"]
    /\ UNCHANGED <<hasCipherGCM, now, accounts, uploads, drive, req, zip, removal, vault, sqlite>>

\* database.ts line 192: BEGIN TRANSACTION on the one connection; SQLite
\* refuses it while a transaction is open, and that rejection is thrown from
\* outside saveFileMetadata's try
SyncBegin(s) ==
    /\ sync[s].pc = "begin"
    /\ \/ /\ sqlite.transaction = <<>>
          /\ sqlite' = [sqlite EXCEPT !.transaction = <<Tables>>]
          /\ sync' = [sync EXCEPT ![s].pc = "insert"]
       \/ /\ sqlite.transaction # <<>>
          /\ sync' = [sync EXCEPT ![s] = Thrown(@)]
          /\ UNCHANGED sqlite
    /\ UNCHANGED <<hasCipherGCM, now, accounts, files_metadata, uploads, drive, req, zip, removal,
                   vault>>

\* database.ts lines 195-215: the next INSERT OR REPLACE runs, or fails
SyncInsert(s) ==
    /\ sync[s].pc = "insert"
    /\ LET file == sync[s].fileMetadata[sync[s].inserted + 1]
       IN \/ /\ files_metadata' = (file.id :> file) @@ files_metadata
             /\ sync' = [sync EXCEPT ![s].inserted = @ + 1,
                                     ![s].pc = IF sync[s].inserted + 1 = Len(sync[s].fileMetadata)
                                               THEN "commit" ELSE "insert"]
          \/ /\ sync' = [sync EXCEPT ![s].pc = "rollback"]
             /\ UNCHANGED files_metadata
    /\ UNCHANGED <<hasCipherGCM, now, accounts, uploads, drive, req, zip, removal, vault, sqlite>>

\* database.ts line 216
SyncCommit(s) ==
    /\ sync[s].pc = "commit"
    /\ sqlite' = [sqlite EXCEPT !.transaction = <<>>]
    /\ sync' = [sync EXCEPT ![s].pc = "quota"]
    /\ UNCHANGED <<hasCipherGCM, now, accounts, files_metadata, uploads, drive, req, zip, removal,
                   vault>>

\* database.ts lines 217-220: ROLLBACK takes the connection back to where
\* BEGIN found it, and the error goes on to the caller
SyncRollback(s) ==
    /\ sync[s].pc = "rollback"
    /\ sqlite.transaction # <<>>
    /\ accounts' = sqlite.transaction[1].accounts
    /\ files_metadata' = sqlite.transaction[1].files_metadata
    /\ uploads' = sqlite.transaction[1].uploads
    /\ sqlite' = [sqlite EXCEPT !.transaction = <<>>]
    /\ sync' = [sync EXCEPT ![s] = Thrown(@)]
    /\ UNCHANGED <<hasCipherGCM, now, drive, req, zip, removal, vault>>

\* lines 102-112: the quota is read and written, with the new token, over the
\* row read at the start; or the read throws
SyncQuota(s) ==
    /\ sync[s].pc = "quota"
    /\ LET a == Head(sync[s].queue)
           updatedAccount == SyncedAccount(sync[s].account, sync[s].accessToken,
                                           getQuota(drive[a]), now)
       IN \/ /\ accounts' = saveAccount(accounts, updatedAccount)
             /\ sync' = [sync EXCEPT ![s] = [NextInQueue(@) EXCEPT !.synced = @ \cup {a}]]
          \/ /\ sync' = [sync EXCEPT ![s] = Thrown(@)]
             /\ UNCHANGED accounts
    /\ UNCHANGED <<hasCipherGCM, now, files_metadata, uploads, drive, req, zip, removal, vault,
                   sqlite>>

\* lines 35-57: the stored files are read and returned
SyncRespond(s) ==
    /\ sync[s].pc = "list"
    /\ sync' = [sync EXCEPT ![s].pc = "done", ![s].response = Response(200, "")]
    /\ UNCHANGED <<hasCipherGCM, now, accounts, files_metadata, uploads, drive, req, zip, removal,
                   vault, sqlite>>

SyncReturn(s) ==
    /\ sync[s].pc = "done"
    /\ sync' = [sync EXCEPT ![s] = SyncRequestIdle]
    /\ UNCHANGED <<hasCipherGCM, now, accounts, files_metadata, uploads, drive, req, zip, removal,
                   vault, sqlite>>

\* ------------------------------------------------------------------ requests on the one connection

\* both accounts went through the callback at instant 0 under passphrase p1
SyncInit ==
    /\ hasCipherGCM \in BOOLEAN
    /\ now = 0
    /\ \E d \in DriveStates :
         /\ \A a \in AccountIds : d[a].usage = 0
         /\ drive = [a \in AccountIds |-> [d[a] EXCEPT !.issued = IF hasCipherGCM THEN 1 ELSE 0]]
         /\ accounts = IF hasCipherGCM
                       THEN [a \in AccountIds |-> CallbackAccount(a, d[a], "p1", "x1", "x2", 0, TRUE).val]
                       ELSE <<>>
    /\ files_metadata = <<>>
    /\ uploads = <<>>
    /\ req = [r \in Requests |-> ReqIdle]
    /\ zip = ZipIdle
    /\ removal = RemovalIdle
    /\ vault = VaultIdle
    /\ sync = SyncIdle
    /\ sqlite = Serving

SyncNext ==
    \/ \E s \in SyncRequests : SyncStart(s)
    \/ \E s \in SyncRequests : SyncRead(s)
    \/ \E s \in SyncRequests : SyncListed(s)
    \/ \E s \in SyncRequests : SyncClear(s)
    \/ \E s \in SyncRequests : SyncBegin(s)
    \/ \E s \in SyncRequests : SyncInsert(s)
    \/ \E s \in SyncRequests : SyncCommit(s)
    \/ \E s \in SyncRequests : SyncRollback(s)
    \/ \E s \in SyncRequests : SyncQuota(s)
    \/ \E s \in SyncRequests : SyncRespond(s)
    \/ \E s \in SyncRequests : SyncReturn(s)

SpecSync == SyncInit /\ [][SyncNext]_vars

\* ------------------------------------------------------------------ one sync beside a removal

SyncAlone == {"s1"}

ForgetNext ==
    \/ \E s \in SyncAlone : SyncStart(s)
    \/ \E s \in SyncAlone : SyncRead(s)
    \/ \E s \in SyncAlone : SyncListed(s)
    \/ \E s \in SyncAlone : SyncClear(s)
    \/ \E s \in SyncAlone : SyncBegin(s)
    \/ \E s \in SyncAlone : SyncInsert(s)
    \/ \E s \in SyncAlone : SyncCommit(s)
    \/ \E s \in SyncAlone : SyncRollback(s)
    \/ \E s \in SyncAlone : SyncQuota(s)
    \/ \E s \in SyncAlone : SyncRespond(s)
    \/ \E s \in SyncAlone : SyncReturn(s)
    \/ RemovalStart
    \/ RemovalRun
    \/ RemovalReturn

SpecForget == SyncInit /\ [][ForgetNext]_vars

\* ------------------------------------------------------------------ one sync beside an upload

SharedNext ==
    \/ \E s \in SyncAlone : SyncStart(s)
    \/ \E s \in SyncAlone : SyncRead(s)
    \/ \E s \in SyncAlone : SyncListed(s)
    \/ \E s \in SyncAlone : SyncClear(s)
    \/ \E s \in SyncAlone : SyncBegin(s)
    \/ \E s \in SyncAlone : SyncInsert(s)
    \/ \E s \in SyncAlone : SyncCommit(s)
    \/ \E s \in SyncAlone : SyncRollback(s)
    \/ \E s \in SyncAlone : SyncQuota(s)
    \/ \E s \in SyncAlone : SyncRespond(s)
    \/ \E s \in SyncAlone : SyncReturn(s)
    \/ \E r \in QuotaRequests : UploadStart(r)
    \/ \E r \in QuotaRequests : UploadCheckSpace(r)
    \/ \E r \in QuotaRequests : \E i \in DOMAIN req[r].files : UploadFileSettled(r, i)
    \/ \E r \in QuotaRequests : UploadRespond(r)

SpecShared == SyncInit /\ [][SharedNext]_vars

\* ------------------------------------------------------------------ properties of the sync

\* C25: when GET /api/files syncs all accounts, the failure of one account's
\* sync does not keep any other account from being synced, and the request
\* still answers 200 with the file listing
C25_SyncAllIsolatesFailures ==
    \A s \in SyncRequests :
        sync[s].pc = "done" /\ sync[s].accountId = "" /\ sync[s].passphrase # "" =>
            /\ sync[s].response.status = 200
            /\ DOMAIN accounts \subseteq sync[s].synced \cup sync[s].failed

C25_Witness ==
    \E s \in SyncRequests :
        /\ sync[s].pc = "done" /\ sync[s].accountId = "" /\ sync[s].passphrase # ""
        /\ sync[s].failed = {"A"}
        /\ sync[s].synced = {"B"}
        /\ sync[s].response.status = 200
        /\ RowsOf(files_metadata, "B") # {}

\* C26: an account that DELETE /api/accounts removed is not stored again by a
\* request that read it before the deletion (no step other than the
\* authorization callback, which these requests never run, adds an account)
C26_RemovedStaysRemoved ==
    [][\A a \in AccountIds : ~HasAccount(accounts, a) => ~HasAccount(accounts', a)]_vars

\* C27: when syncAccountFiles fails for an account, at whichever step, the
\* file rows stored for that account are those stored before the call
C27_FailedSyncKeepsIndex ==
    [][\A s \in SyncRequests : \A a \in AccountIds :
          a \in sync'[s].failed /\ a \notin sync[s].failed =>
              (IF sync[s].pc = "read" THEN RowsOf(files_metadata, a) ELSE sync[s].before)
                  \subseteq RowsOf(files_metadata', a)]_vars

\* C29: the ROLLBACK of a saveFileMetadata call that fails undoes the inserts
\* of that call only: no row of any table that another request wrote while the
\* call was running is changed by it
C29_RollbackUndoesOwnInserts ==
    [][\A s \in SyncRequests :
          LET own == {sync[s].fileMetadata[i].id : i \in DOMAIN sync[s].fileMetadata}
              Others(tbl) == [id \in DOMAIN tbl \ own |-> tbl[id]]
          IN sync[s].pc = "rollback" /\ sync'[s].pc # "rollback" =>
                  /\ Others(files_metadata') = Others(files_metadata)
                  /\ accounts' = accounts
                  /\ uploads' = uploads]_vars

\* C21: every file of an accepted upload request has exactly one job, the
\* response counts each file as successful or failed, and once the request has
\* returned no job of it is left in uploading (the request of this
\* specification is the only one that creates jobs)
C21_EveryJobSettled ==
    [][\A r \in QuotaRequests :
          /\ req[r].pc = "uploading" /\ req'[r].pc = "done" =>
                /\ Len(req[r].ids) = Len(req[r].files)
                /\ \A i, j \in DOMAIN req[r].ids : req[r].ids[i] = req[r].ids[j] => i = j
                /\ \A i \in DOMAIN req[r].ids :
                      Cardinality({k \in DOMAIN uploads' : uploads'[k].id = req[r].ids[i]}) = 1
                /\ Cardinality(req[r].succeeded) + Cardinality(req[r].settled \ req[r].succeeded)
                      = Len(req[r].files)
          /\ req'[r].kind = "upload" /\ req'[r].pc = "done" /\ req'[r].response.status = 200 =>
                \A k \in DOMAIN uploads' : uploads'[k].status \in {"completed", "failed"}]_vars

\* the rows a sync of account a is to store: one per listed file
Listing(a) == {convertToFileMetadata(f, a) : f \in drive[a].files}

NotOpened ==
    [database |-> "null", db |-> "null", inits |-> 0, transaction |-> <<>>,
     calls |-> [c \in Callers |-> CallIdle]]

\* init's promise settles: the caller awaiting it goes on with the handle, or
\* with the rejection
Settled(calls, outcome) ==
    [c \in Callers |->
        IF calls[c].pc = "awaiting"
        THEN IF outcome = "ready"
             THEN [calls[c] EXCEPT !.pc = "returned", !.handle = "ready"]
             ELSE [calls[c] EXCEPT !.pc = "thrown"]
        ELSE calls[c]]

OpenFrame ==
    UNCHANGED <<hasCipherGCM, now, accounts, files_metadata, uploads, drive, req, zip, removal,
                vault, sync>>

\* lines 334-340: the first caller constructs the singleton and starts init,
\* whose executor assigns this.db = new Database(...) before anything is
\* awaited (lines 60-61); any other caller finds database set and returns it
GetDatabase(c) ==
    /\ sqlite.calls[c].pc = "idle"
    /\ \/ /\ sqlite.database = "null"
          /\ sqlite' = [sqlite EXCEPT !.database = "instance", !.db = "opening",
                                      !.inits = @ + 1, !.calls[c].pc = "awaiting"]
       \/ /\ sqlite.database # "null"
          /\ sqlite' = [sqlite EXCEPT !.calls[c].pc = "returned", !.calls[c].handle = sqlite.db]
    /\ OpenFrame

\* lines 61-69: sqlite3 calls back: with an error init rejects, without one
\* createTables starts
DatabaseOpened ==
    /\ sqlite.db = "opening"
    /\ \/ sqlite' = [sqlite EXCEPT !.db = "open"]
       \/ sqlite' = [sqlite EXCEPT !.db = "failed", !.calls = Settled(@, "failed")]
    /\ OpenFrame

\* lines 68, 73-138: createTables resolves, and init with it, or rejects
TablesCreated ==
    /\ sqlite.db = "open"
    /\ \/ sqlite' = [sqlite EXCEPT !.db = "ready", !.calls = Settled(@, "ready")]
       \/ sqlite' = [sqlite EXCEPT !.db = "failed", !.calls = Settled(@, "failed")]
    /\ OpenFrame

\* the caller runs its first statement on the handle it was given; sqlite3
\* holds it back until the file is open, and a table that createTables has
\* not reached yet does not exist
Query(c) ==
    /\ sqlite.calls[c].pc = "returned"
    /\ sqlite.calls[c].result = "none"
    /\ sqlite.db # "opening"
    /\ \E result \in {"rows", "error"} :
         /\ sqlite.db = "ready" => result = "rows"
         /\ sqlite.db = "failed" => result = "error"
         /\ sqlite' = [sqlite EXCEPT !.calls[c].result = result]
    /\ OpenFrame

\* the request ends
CallReturn(c) ==
    /\ \/ sqlite.calls[c].pc = "thrown"
       \/ sqlite.calls[c].pc = "returned" /\ sqlite.calls[c].result # "none"
    /\ sqlite' = [sqlite EXCEPT !.calls[c] = CallIdle]
    /\ OpenFrame

OpenInit ==
    /\ hasCipherGCM \in BOOLEAN
    /\ now = 0
    /\ accounts = <<>>
    /\ files_metadata = <<>>
    /\ uploads = <<>>
    /\ drive \in DriveStates
    /\ req = [r \in Requests |-> ReqIdle]
    /\ zip = ZipIdle
    /\ removal = RemovalIdle
    /\ vault = VaultIdle
    /\ sync = SyncIdle
    /\ sqlite = NotOpened

OpenNext ==
    \/ \E c \in Callers : GetDatabase(c)
    \/ DatabaseOpened
    \/ TablesCreated
    \/ \E c \in Callers : Query(c)
    \/ \E c \in Callers : CallReturn(c)

SpecOpen == OpenInit /\ [][OpenNext]_vars

\* C30: every caller of getDatabase receives the shared LocalDatabase only after
\* its init has completed (connection opened, tables created), and init runs
\* exactly once however many first calls overlap
C30_HandleInitialized ==
    /\ sqlite.inits <= 1
    /\ \A c \in Callers : sqlite.calls[c].pc = "returned" => sqlite.calls[c].handle = "ready"

====
